---- MODULE Spec2Model ----
(***************************************************************************)
(* Invitation and membership-provisioning workflow of the project          *)
(* management backend: InvitationService (send_organization_invitation,    *)
(* accept_invitation), the invite_member / create_organization / register  *)
(* endpoints and the record store they commit to.                          *)
(*                                                                         *)
(* Every request runs in its own database session.  accept_invitation and *)
(* the direct add of invite_member are split at their awaits: each step    *)
(* reads the committed rows (READ COMMITTED, the default isolation), the   *)
(* session's pending writes stay in loc[p] and reach the store at the      *)
(* handler's commit, where the store checks its unique constraints.        *)
(* register, create_organization and the sending of an invitation are one  *)
(* step each.  res is the response of the call that has just returned; it  *)
(* is handed to the caller (respond) before the next step is taken.        *)
(* accepted counts the successful returns of accept_invitation per token.  *)
(* The clock counts periods of seven days.                                 *)
(*                                                                         *)
(* Spec follows sign-up, organization creation, invitation and acceptance  *)
(* from the empty store.  AcceptSpec starts from an invitee who may hold a *)
(* membership already, SendSpec from an organization whose domain policy   *)
(* (settings, orgdomains) is drawn from the rows the endpoints can leave,  *)
(* ManageSpec from three sent invitations that are then accepted,          *)
(* cancelled (cancel_invitation, split at its await) and listed            *)
(* (get_pending_invitations).  MemberSpec follows invite_member,           *)
(* remove_member and update_member_role, each split at its await, in an    *)
(* organization with an owner and an admin.  RegSpec follows register      *)
(* commit by commit from the empty store; registrations holds the          *)
(* Registration rows.  MailSpec follows send_organization_invitation       *)
(* through its commit, its e-mail and its notification, and send_email of  *)
(* the EmailService under the SMTP credentials smtp; outbox holds the      *)
(* tokens whose invitation e-mail has been handed to the EmailService.     *)
(***************************************************************************)
EXTENDS Integers, Sequences, FiniteSets, Bags, TLC

VARIABLES users, orgs, members, invitations, notifications, nextToken, now, pc, loc, res, accepted, settings, orgdomains, registrations, outbox, smtp

vars == <<users, orgs, members, invitations, notifications, nextToken, now, pc, loc, res, accepted, settings, orgdomains, registrations, outbox, smtp>>

\* the configuration: OrganizationSettings rows, the domain columns of the
\* organizations and the SMTP credentials of the EmailService; no handler
\* followed here writes any of them
policy == <<settings, orgdomains, smtp>>

store == <<users, orgs, members, invitations, notifications>>

\* ---------------------------------------------------------------- bounds
MaxUsers == 2

MaxOrgs == 3

MaxInvitations == 1

MaxTime == 2

Procs == {1, 2}

UserIds == 1..MaxUsers

OrgIds == 1..MaxOrgs

OwnerEmail == "alice@acme.com"

Emails == {"bob@acme.com", "Bob@acme.com"}

\* the organization whose invitations are followed
InviteOrgs == {1}

InviteRoles == {"member"}

TempPasswords == {"tmpA"}

WrongPassword == "guess"

NewPasswords == {"NewPass1!"}

\* the caller of create_organization: the user that signed up on its own
OrgCreators == {2}

\* the address that signs up on its own
RegisterEmails == {"bob@acme.com"}

RegisterPasswords == {"RegPass1!"}

\* ------------------------------------------------------ program constants
\* timedelta(days=7), in clock periods of seven days
INVITATION_TTL == 1

\* ------------------------------------------------------------ primitives
\* str.lower() on the addresses of Emails
Lower(e) ==
    CASE e = "Bob@acme.com" -> "bob@acme.com"
      [] e = "Alice@acme.com" -> "alice@acme.com"
      [] e = "eve@Acme.com" -> "eve@acme.com"
      [] e = " eve@Acme.com " -> " eve@acme.com "
      [] e = "Acme.com" -> "acme.com"
      [] e = "Partner.com" -> "partner.com"
      [] e = "Acme.com " -> "acme.com "
      [] OTHER -> e

\* str.strip()
Strip(e) ==
    CASE e = " bob@acme.com " -> "bob@acme.com"
      [] e = " eve@acme.com " -> "eve@acme.com"
      [] e = " eve@Acme.com " -> "eve@Acme.com"
      [] OTHER -> e

\* str.split('@'): the parts of the address around its '@'
SplitAt(e) ==
    CASE e = "alice@acme.com" -> <<"alice", "acme.com">>
      [] e = "Alice@acme.com" -> <<"Alice", "acme.com">>
      [] e = "bob@acme.com" -> <<"bob", "acme.com">>
      [] e = "Bob@acme.com" -> <<"Bob", "acme.com">>
      [] e = "eve@acme.com" -> <<"eve", "acme.com">>
      [] e = "eve@Acme.com" -> <<"eve", "Acme.com">>
      [] e = "eve@partner.com" -> <<"eve", "partner.com">>
      [] e = "dan@partner.com" -> <<"dan", "partner.com">>
      [] e = " eve@Acme.com " -> <<" eve", "Acme.com ">>
      [] OTHER -> <<e>>

hash_password(p) == <<"hash", p>>

verify_password(p, h) == h = hash_password(p)

\* columns of the users table
UserColumns == {"id", "email", "password_hash", "first_name", "last_name", "avatar_url", "email_verified", "two_factor_enabled", "two_factor_secret", "last_login_at", "created_at", "updated_at"}

\* NOT NULL columns of users without a default
UserRequiredColumns == {"email", "password_hash", "first_name", "last_name"}

\* keyword arguments accept_invitation passes to User(...)
AcceptUserKwargs == {"email", "first_name", "last_name", "hashed_password", "is_active", "email_verified"}

\* attribute accept_invitation assigns the new password hash to
AcceptPasswordAttr == "hashed_password"

\* The declarative constructor rejects a keyword that is no mapped attribute;
\* the flush rejects a row with a NULL in a NOT NULL column.
UserCtorOutcome(kwargs) ==
    IF ~(kwargs \subseteq UserColumns) THEN "TypeError"
    ELSE IF ~(UserRequiredColumns \subseteq kwargs) THEN "IntegrityError"
    ELSE "created"

\* ------------------------------------------------------------ row shapes
\* no handler of the repository inserts an OrganizationSettings row
OrganizationSettingsRows == {}

\* an organization created without domain and allowed_domains
NoDomains == [domain |-> "", allowed_domains |-> {}]

\* EmailService with both credentials set
SmtpConfigured == [smtp_user |-> "mailer", smtp_pass |-> "secret"]

\* a Registration row; user_id and organization_id are 0 until the handler
\* has filled them in
Registered(id, email, user_id, organization_id) ==
    [id |-> id, email |-> email, user_id |-> user_id, organization_id |-> organization_id]

NoInvitation == [id |-> 0, token |-> 0, email |-> "", organization_id |-> 0, invited_role |-> "", temporary_password |-> <<"hash", "">>, invited_by |-> 0, expires_at |-> 0, is_used |-> FALSE, used_at |-> -1, project_id |-> 0, invitation_message |-> "", created_at |-> <<0, 0>>]

IdleLoc == [token |-> 0, temp_password |-> "", new_password |-> "", email |-> "", organization_id |-> 0, role |-> "", inviter_id |-> 0, inv |-> NoInvitation, user_id |-> 0, user_new |-> FALSE, pw_update |-> FALSE, add_member |-> FALSE, used_at |-> -1, checked_at |-> -1, alone |-> FALSE, nouser |-> FALSE, via |-> "none", caller_role |-> "", read_role |-> "", email_sent |-> FALSE]

NoResult == [op |-> "none", outcome |-> "none", email |-> "", organization_id |-> 0, invited_role |-> "", inviter_id |-> 0, project_id |-> 0, message |-> "", listing |-> <<>>, token |-> 0, temporary_password |-> "", email_sent |-> FALSE, email_failed |-> FALSE, pre |-> "none", alone |-> FALSE, nouser |-> FALSE, user_id |-> 0, fault |-> FALSE]

\* ------------------------------------------------------------- queries
\* select(User).where(User.email == email.lower())
GetUserByEmail(email) == {u \in users : u.email = Lower(email)}

\* select(User).where(User.email == email)
GetUserByExactEmail(email) == {u \in users : u.email = email}

GetOrganizationMember(user_id, organization_id) ==
    {m \in BagToSet(members) : m.user_id = user_id /\ m.organization_id = organization_id}

GetInvitationByToken(token) == {i \in invitations : i.token = token}

\* _get_organization_details: {} when the row is missing
GetOrganizationDetails(organization_id) == organization_id \in orgs

\* _get_user_details: {} when the row is missing
GetUserDetails(user_id) == \E u \in users : u.id = user_id

\* login: the user row for the address as given, and the password verified
\* against its password_hash
LoginOK(email, password) ==
    \E u \in GetUserByExactEmail(email) : verify_password(password, u.password_hash)

\* the store without the constraint on (organization_id, user_id)
UniqueMemberOK_Unconstrained(ms, m) == TRUE

\* unique constraint on (organization_id, user_id)
UniqueMemberOK(ms, m) ==
    \A x \in BagToSet(ms) : ~(x.organization_id = m.organization_id /\ x.user_id = m.user_id)

\* unique constraint on users.email
UniqueEmailOK(us, email) == \A u \in us : u.email # email

\* ------------------------------------------------------------ bookkeeping
Idle(p) == pc[p] = "idle"

\* a request is served by the lowest free worker
CanStart(p) == Idle(p) /\ \A q \in Procs : q < p => ~Idle(q)

\* no response is waiting to be handed to its caller
Delivered == res = NoResult

OthersIdle(p) == \A q \in Procs \ {p} : pc[q] = "idle"

\* a step of p interleaves with every other call in flight
Touch(p, l) ==
    [q \in Procs |-> IF q = p THEN l
                     ELSE IF pc[q] = "idle" THEN loc[q]
                     ELSE [loc[q] EXCEPT !.alone = FALSE]]

\* the calls still in flight keep the lowest slots
FinishCall(p, r) ==
    /\ pc' = [q \in Procs |-> IF q < p THEN pc[q] ELSE IF q + 1 \in Procs THEN pc[q + 1] ELSE "idle"]
    /\ loc' = [q \in Procs |-> IF q < p THEN Touch(p, IdleLoc)[q] ELSE IF q + 1 \in Procs THEN Touch(p, IdleLoc)[q + 1] ELSE IdleLoc]
    /\ res' = r
    /\ accepted' = IF r.op = "accept" /\ r.outcome = "ok" THEN accepted (+) SetToBag({r.token}) ELSE accepted
    /\ UNCHANGED policy

\* a call that returns and one that goes on to its next statement, in the
\* handlers that write no Registration row
Finish(p, r) == FinishCall(p, r) /\ UNCHANGED <<registrations, outbox>>

GotoStep(p, label, l) ==
    /\ pc' = [pc EXCEPT ![p] = label]
    /\ loc' = Touch(p, l)
    /\ res' = NoResult
    /\ UNCHANGED <<accepted, policy>>

Goto(p, label, l) == GotoStep(p, label, l) /\ UNCHANGED <<registrations, outbox>>

Init ==
    /\ users = {[id |-> 1, email |-> OwnerEmail, password_hash |-> hash_password("OwnerPass1!"), email_verified |-> FALSE]}
    /\ orgs = {1}
    /\ members = SetToBag({[organization_id |-> 1, user_id |-> 1, role |-> "owner", invited_by |-> 1]})
    /\ invitations = {}
    /\ notifications = EmptyBag
    /\ nextToken = 1
    /\ now = 0
    /\ pc = [p \in Procs |-> "idle"]
    /\ loc = [p \in Procs |-> IdleLoc]
    /\ res = NoResult
    /\ accepted = EmptyBag
    /\ settings = OrganizationSettingsRows
    /\ orgdomains = [o \in OrgIds |-> NoDomains]
    /\ smtp = SmtpConfigured
    /\ outbox = {}
    /\ registrations = {Registered(1, OwnerEmail, 1, 1)}

\* ------------------------------------------------------------- register
register(p, email, password) ==
    /\ Delivered
    /\ CanStart(p)
    /\ IF GetUserByExactEmail(email) # {}
       THEN /\ Finish(p, [NoResult EXCEPT !.op = "register", !.outcome = "DuplicateResourceError", !.email = email])
            /\ UNCHANGED <<store, nextToken, now>>
       ELSE /\ Cardinality(users) < MaxUsers
            /\ Cardinality(orgs) < MaxOrgs
            /\ LET uid == Cardinality(users) + 1
                oid == Cardinality(orgs) + 1
              IN /\ users' = users \cup {[id |-> uid, email |-> email, password_hash |-> hash_password(password), email_verified |-> FALSE]}
                 /\ orgs' = orgs \cup {oid}
                 /\ members' = members (+) SetToBag({[organization_id |-> oid, user_id |-> uid, role |-> "owner", invited_by |-> uid]})
                 /\ registrations' = registrations \cup {Registered(Cardinality(registrations) + 1, email, uid, oid)}
                 /\ FinishCall(p, [NoResult EXCEPT !.op = "register", !.outcome = "ok", !.user_id = uid])
                 /\ UNCHANGED <<invitations, notifications, nextToken, now, outbox>>

\* ----------------------------------------------------- accept_invitation
\* the expiry check with <= in place of <
AcceptPrecheck_ExpiredAtBoundary(found, temp_password, t) ==
    IF found = {} THEN "unknown"
    ELSE LET invitation == CHOOSE i \in found : TRUE
         IN IF invitation.is_used THEN "used"
            ELSE IF invitation.expires_at <= t THEN "expired"
            ELSE IF ~verify_password(temp_password, invitation.temporary_password) THEN "badpw"
            ELSE "valid"

\* the temporary password check left out
AcceptPrecheck_NoPasswordCheck(found, temp_password, t) ==
    IF found = {} THEN "unknown"
    ELSE LET invitation == CHOOSE i \in found : TRUE
         IN IF invitation.is_used THEN "used"
            ELSE IF invitation.expires_at < t THEN "expired"
            ELSE "valid"

\* the four checks on the loaded invitation, in the order of the code
AcceptPrecheck(found, temp_password, t) ==
    IF found = {} THEN "unknown"
    ELSE LET invitation == CHOOSE i \in found : TRUE
         IN IF invitation.is_used THEN "used"
            ELSE IF invitation.expires_at < t THEN "expired"
            ELSE IF ~verify_password(temp_password, invitation.temporary_password) THEN "badpw"
            ELSE "valid"

PrecheckError(pre) ==
    CASE pre = "unknown" -> "ValidationError: Invalid or expired invitation token"
      [] pre = "used" -> "ValidationError: Invitation has already been used"
      [] pre = "expired" -> "ValidationError: Invitation has expired"
      [] pre = "badpw" -> "ValidationError: Invalid temporary password"

AcceptResult(p, outcome) ==
    [NoResult EXCEPT !.op = "accept", !.outcome = outcome, !.token = loc[p].token, !.temporary_password = loc[p].temp_password, !.pre = "valid", !.alone = loc[p].alone, !.nouser = loc[p].nouser, !.user_id = loc[p].user_id]

\* get the invitation and validate it
accept_invitation(p, token, temp_password, new_password) ==
    /\ Delivered
    /\ CanStart(p)
    /\ LET found == GetInvitationByToken(token)
           pre == AcceptPrecheck(found, temp_password, now)
       IN IF pre # "valid"
          THEN Finish(p, [NoResult EXCEPT !.op = "accept", !.outcome = PrecheckError(pre), !.token = token, !.temporary_password = temp_password, !.pre = pre, !.alone = OthersIdle(p)])
          ELSE Goto(p, "acc_user", [IdleLoc EXCEPT !.token = token, !.temp_password = temp_password, !.new_password = new_password, !.inv = CHOOSE i \in found : TRUE, !.checked_at = now, !.alone = OthersIdle(p), !.via = "accept"])
    /\ UNCHANGED <<store, nextToken, now>>

\* look the invitee up; update the password attribute or construct and flush
\* a User; membership check, pending membership insert, pending
\* is_used/used_at
accept_user(p) ==
    /\ Delivered
    /\ pc[p] = "acc_user"
    /\ LET existing_user == GetUserByEmail(loc[p].inv.email)
           user_id == IF existing_user # {} THEN (CHOOSE u \in existing_user : TRUE).id ELSE Cardinality(users) + 1
           existing_member == GetOrganizationMember(user_id, loc[p].inv.organization_id)
           pending == [loc[p] EXCEPT !.user_id = user_id, !.add_member = (existing_member = {}), !.used_at = now]
       IN IF existing_user # {}
          THEN Goto(p, "acc_commit", [pending EXCEPT !.pw_update = (AcceptPasswordAttr \in UserColumns)])
          ELSE IF UserCtorOutcome(AcceptUserKwargs) = "created"
               THEN Goto(p, "acc_commit", [pending EXCEPT !.user_new = TRUE, !.nouser = TRUE])
               ELSE Finish(p, [AcceptResult(p, UserCtorOutcome(AcceptUserKwargs)) EXCEPT !.nouser = TRUE])
    /\ UNCHANGED <<store, nextToken, now>>

AcceptNewMember(l) ==
    [organization_id |-> l.inv.organization_id, user_id |-> l.user_id, role |-> l.inv.invited_role, invited_by |-> l.inv.invited_by]

\* rows of the session that the commit writes
AcceptUsers(l) ==
    IF l.user_new
    THEN users \cup {[id |-> l.user_id, email |-> l.inv.email, password_hash |-> hash_password(l.new_password), email_verified |-> TRUE]}
    ELSE IF l.pw_update
         THEN {IF u.id = l.user_id THEN [u EXCEPT !.password_hash = hash_password(l.new_password)] ELSE u : u \in users}
         ELSE users

\* an existing membership overwritten with the invitation's role and inviter
AcceptMembers_Overwrite(l) ==
    IF l.add_member THEN members (+) SetToBag({AcceptNewMember(l)})
    ELSE SetToBag({IF m.user_id = l.user_id /\ m.organization_id = l.inv.organization_id THEN AcceptNewMember(l) ELSE m : m \in BagToSet(members)})

\* the membership insert left out of the committed unit
AcceptMembers_NoInsert(l) == members

AcceptMembers(l) ==
    IF l.add_member THEN members (+) SetToBag({AcceptNewMember(l)}) ELSE members

AcceptInvitations(l) ==
    {IF i.token = l.inv.token THEN [i EXCEPT !.is_used = TRUE, !.used_at = l.used_at] ELSE i : i \in invitations}

AcceptNotifications(l) ==
    notifications
      (+) SetToBag({[user_id |-> l.user_id, organization_id |-> l.inv.organization_id, type |-> "team_invite_accepted", title |-> "Welcome"]})
      (+) SetToBag({[user_id |-> l.inv.invited_by, organization_id |-> l.inv.organization_id, type |-> "team_invite_accepted", title |-> "Invitation Accepted"]})

\* the organization lookup flushes the session's rows (autoflush); the two
\* notifications are built from the organization's name and flushed too
AcceptCommitOutcome(l, notifyFault) ==
    IF ~GetOrganizationDetails(l.inv.organization_id) THEN "KeyError"
    ELSE IF l.user_new /\ ~UniqueEmailOK(users, l.inv.email) THEN "IntegrityError"
    ELSE IF l.add_member /\ ~UniqueMemberOK(members, AcceptNewMember(l)) THEN "IntegrityError"
    ELSE IF GetInvitationByToken(l.inv.token) = {} THEN "StaleDataError"
    ELSE IF notifyFault THEN "NotificationError"
    ELSE "ok"

\* organization lookup, the two notifications, db.commit(): all pending rows
\* become visible, or none
accept_commit(p, notifyFault) ==
    /\ Delivered
    /\ pc[p] = "acc_commit"
    /\ LET outcome == AcceptCommitOutcome(loc[p], notifyFault)
       IN /\ Finish(p, [AcceptResult(p, outcome) EXCEPT !.fault = notifyFault])
          /\ IF outcome = "ok"
             THEN /\ users' = AcceptUsers(loc[p])
                  /\ members' = AcceptMembers(loc[p])
                  /\ invitations' = AcceptInvitations(loc[p])
                  /\ notifications' = AcceptNotifications(loc[p])
                  /\ UNCHANGED orgs
             ELSE UNCHANGED store
    /\ UNCHANGED <<nextToken, now>>

\* the process serving the request dies: the open transaction is rolled back
crash(p) ==
    /\ Delivered
    /\ pc[p] # "idle"
    /\ Finish(p, [NoResult EXCEPT !.op = loc[p].via, !.outcome = "crash", !.token = loc[p].token])
    /\ UNCHANGED <<store, nextToken, now>>

\* ------------------------------------------- send_organization_invitation
\* the allowed domains: Organization.domain, Organization.allowed_domains and
\* OrganizationSettings.allowed_invitation_domains, each lower-cased
AllowedDomains(org_data, invitation_domains) ==
    (IF org_data.domain # "" THEN {Lower(org_data.domain)} ELSE {})
      \cup {Lower(d) : d \in org_data.allowed_domains}
      \cup {Lower(d) : d \in invitation_domains}

\* the validator appended to the module of the service: enforced unless the
\* settings row switches the domain match off
ValidateEmailDomain_Patched(email, organization_id) ==
    LET org_settings == {x \in settings : x.organization_id = organization_id}
        org_data == IF organization_id \in orgs THEN orgdomains[organization_id] ELSE NoDomains
        allowed_domains == AllowedDomains(org_data, UNION {x.allowed_invitation_domains : x \in org_settings})
    IN IF Len(SplitAt(email)) < 2 THEN "IndexError"
       ELSE IF \E x \in org_settings : ~x.require_domain_match THEN "ok"
       ELSE IF allowed_domains # {} /\ Lower(SplitAt(email)[2]) \notin allowed_domains
            THEN "ValidationError: Email domain is not allowed"
            ELSE "ok"

\* the validator comparing the part after '@' as written
ValidateEmailDomain_CaseSensitive(email, organization_id) ==
    LET org_settings == {x \in settings : x.organization_id = organization_id}
        allowed_domains == AllowedDomains(orgdomains[organization_id], UNION {x.allowed_invitation_domains : x \in org_settings})
    IN IF Len(SplitAt(email)) < 2 THEN "IndexError"
       ELSE IF org_settings = {} \/ \E x \in org_settings : ~x.require_domain_match THEN "ok"
       ELSE IF organization_id \notin orgs THEN "ValidationError: Organization not found"
       ELSE IF allowed_domains # {} /\ SplitAt(email)[2] \notin allowed_domains
            THEN "ValidationError: Email domain is not allowed"
            ELSE "ok"

\* the validator refusing every address when nothing is allowed
ValidateEmailDomain_StrictEmpty(email, organization_id) ==
    LET org_settings == {x \in settings : x.organization_id = organization_id}
        allowed_domains == AllowedDomains(orgdomains[organization_id], UNION {x.allowed_invitation_domains : x \in org_settings})
    IN IF Len(SplitAt(email)) < 2 THEN "IndexError"
       ELSE IF org_settings = {} \/ \E x \in org_settings : ~x.require_domain_match THEN "ok"
       ELSE IF organization_id \notin orgs THEN "ValidationError: Organization not found"
       ELSE IF Lower(SplitAt(email)[2]) \notin allowed_domains
            THEN "ValidationError: Email domain is not allowed"
            ELSE "ok"

\* _validate_email_domain of InvitationService
ValidateEmailDomain(email, organization_id) ==
    LET org_settings == {x \in settings : x.organization_id = organization_id}
        allowed_domains == AllowedDomains(orgdomains[organization_id], UNION {x.allowed_invitation_domains : x \in org_settings})
    IN IF Len(SplitAt(email)) < 2 THEN "IndexError"
       ELSE IF org_settings = {} \/ \E x \in org_settings : ~x.require_domain_match THEN "ok"
       ELSE IF organization_id \notin orgs THEN "ValidationError: Organization not found"
       ELSE IF allowed_domains # {} /\ Lower(SplitAt(email)[2]) \notin allowed_domains
            THEN "ValidationError: Email domain is not allowed"
            ELSE "ok"

\* domain validation and the already-a-member check
SendCheck(email, organization_id) ==
    LET existing_user == GetUserByEmail(email)
        existing_member == IF existing_user = {} THEN {} ELSE GetOrganizationMember((CHOOSE u \in existing_user : TRUE).id, organization_id)
    IN IF ValidateEmailDomain(email, organization_id) # "ok"
       THEN ValidateEmailDomain(email, organization_id)
       ELSE IF existing_member # {}
       THEN "ValidationError: User is already a member of this organization"
       ELSE "ok"

\* the row keeping the address as it was given
NewInvitation_AsGiven(email, organization_id, invited_role, inviter_id, project_id, message, token, temp_password) ==
    [id |-> token, token |-> token, email |-> email, organization_id |-> organization_id, invited_role |-> invited_role, temporary_password |-> hash_password(temp_password), invited_by |-> inviter_id, expires_at |-> now + INVITATION_TTL, is_used |-> FALSE, used_at |-> -1, project_id |-> project_id, invitation_message |-> message, created_at |-> <<now, token>>]

NewInvitation(email, organization_id, invited_role, inviter_id, project_id, message, token, temp_password) ==
    [id |-> token, token |-> token, email |-> Strip(Lower(email)), organization_id |-> organization_id, invited_role |-> invited_role, temporary_password |-> hash_password(temp_password), invited_by |-> inviter_id, expires_at |-> now + INVITATION_TTL, is_used |-> FALSE, used_at |-> -1, project_id |-> project_id, invitation_message |-> message, created_at |-> <<now, token>>]

\* _send_invitation_email: every exception of the dispatch ends as False
SendInvitationEmail(org_found, inviter_found, delivered) ==
    IF org_found /\ inviter_found THEN delivered ELSE FALSE

\* how the companion notification block ends for an invitee with a User row
SendNotifyOutcome(org_found, inviter_found, notifyFault) ==
    IF ~org_found \/ ~inviter_found THEN "KeyError"
    ELSE IF notifyFault THEN "NotificationError"
    ELSE "ok"

\* EmailService gets the invitation e-mail of the token when the details of
\* the organization and of the inviter were found
Dispatch(found, token) == IF found THEN outbox \cup {token} ELSE outbox

\* the two checks; token, temporary password, the InvitationToken row and its
\* commit; the best-effort e-mail; the companion notification for an invitee
\* who has a User row and its commit; the result
send_organization_invitation(p, email, organization_id, invited_role, inviter_id, project_id, message, temp_password, delivered, notifyFault) ==
    LET check == SendCheck(email, organization_id)
        org_found == GetOrganizationDetails(organization_id)
        inviter_found == GetUserDetails(inviter_id)
        email_sent == SendInvitationEmail(org_found, inviter_found, delivered)
        existing_user == GetUserByEmail(email)
        uid == IF existing_user = {} THEN 0 ELSE (CHOOSE u \in existing_user : TRUE).id
        outcome == IF existing_user = {} THEN "ok" ELSE SendNotifyOutcome(org_found, inviter_found, notifyFault)
    IN IF check # "ok"
       THEN /\ Finish(p, [NoResult EXCEPT !.op = "invite", !.outcome = check, !.email = email, !.organization_id = organization_id])
            /\ UNCHANGED <<store, nextToken>>
       ELSE /\ nextToken <= MaxInvitations
            /\ invitations' = invitations \cup {NewInvitation(email, organization_id, invited_role, inviter_id, project_id, message, nextToken, temp_password)}
            /\ nextToken' = nextToken + 1
            /\ notifications' = IF existing_user # {} /\ outcome = "ok"
                                THEN notifications (+) SetToBag({[user_id |-> uid, organization_id |-> organization_id, type |-> "team_invite", title |-> "Project Invitation"]})
                                ELSE notifications
            /\ outbox' = Dispatch(org_found /\ inviter_found, nextToken)
            /\ UNCHANGED registrations
            /\ FinishCall(p, [NoResult EXCEPT !.op = "invite", !.outcome = outcome, !.email = email, !.organization_id = organization_id, !.invited_role = invited_role, !.inviter_id = inviter_id, !.project_id = project_id, !.message = message, !.token = nextToken, !.temporary_password = temp_password, !.email_sent = email_sent, !.email_failed = ~email_sent, !.alone = OthersIdle(p), !.nouser = (existing_user = {}), !.user_id = uid, !.fault = (existing_user # {} /\ notifyFault)])
            /\ UNCHANGED <<users, orgs, members>>

\* ---------------------------------------------------------- invite_member
\* require_admin_by_path: the caller is an admin or owner of the organization
RequireAdmin(user_id, organization_id) ==
    \E m \in GetOrganizationMember(user_id, organization_id) : m.role \in {"owner", "admin"}

\* org_member.role: the role of the caller that require_admin_by_path hands
\* to the handler
RoleOf(user_id, organization_id) ==
    (CHOOSE m \in GetOrganizationMember(user_id, organization_id) : TRUE).role

\* user lookup by the address as given; an existing user is checked for
\* membership and added directly, any other address is sent an invitation
invite_member(p, organization_id, email, role, current_user, temp_password, delivered, notifyFault) ==
    /\ Delivered
    /\ CanStart(p)
    /\ RequireAdmin(current_user, organization_id)
    /\ LET user == GetUserByExactEmail(email)
       IN IF user = {}
          THEN send_organization_invitation(p, email, organization_id, role, current_user, 0, "", temp_password, delivered, notifyFault)
          ELSE /\ IF GetOrganizationMember((CHOOSE u \in user : TRUE).id, organization_id) # {}
                  THEN Finish(p, [NoResult EXCEPT !.op = "invite", !.outcome = "ValidationError: User is already a member of this organization"])
                  ELSE Goto(p, "inv_add", [IdleLoc EXCEPT !.email = email, !.organization_id = organization_id, !.role = role, !.inviter_id = current_user, !.user_id = (CHOOSE u \in user : TRUE).id, !.alone = OthersIdle(p), !.via = "invite", !.caller_role = RoleOf(current_user, organization_id)])
               /\ UNCHANGED <<store, nextToken>>
    /\ UNCHANGED now

InviteNewMember(l) ==
    [organization_id |-> l.organization_id, user_id |-> l.user_id, role |-> l.role, invited_by |-> l.inviter_id]

\* direct add of an existing user: insert and commit
invite_add(p) ==
    /\ Delivered
    /\ pc[p] = "inv_add"
    /\ IF UniqueMemberOK(members, InviteNewMember(loc[p]))
       THEN /\ members' = members (+) SetToBag({InviteNewMember(loc[p])})
            /\ Finish(p, [NoResult EXCEPT !.op = "invite", !.outcome = "ok", !.user_id = loc[p].user_id])
       ELSE /\ UNCHANGED members
            /\ Finish(p, [NoResult EXCEPT !.op = "invite", !.outcome = "IntegrityError", !.user_id = loc[p].user_id])
    /\ UNCHANGED <<users, orgs, invitations, notifications, nextToken, now>>

\* ----------------------------------------------------- create_organization
create_organization(p, current_user) ==
    /\ Delivered
    /\ CanStart(p)
    /\ Cardinality(orgs) < MaxOrgs
    /\ \E u \in users : u.id = current_user
    /\ IF \E m \in BagToSet(members) : m.user_id = current_user /\ m.role # "owner"
       THEN /\ Finish(p, [NoResult EXCEPT !.op = "create_org", !.outcome = "HTTPException 403"])
            /\ UNCHANGED <<store, nextToken, now>>
       ELSE LET oid == Cardinality(orgs) + 1
            IN /\ orgs' = orgs \cup {oid}
               /\ members' = members (+) SetToBag({[organization_id |-> oid, user_id |-> current_user, role |-> "owner", invited_by |-> 0]})
               /\ Finish(p, [NoResult EXCEPT !.op = "create_org", !.outcome = "ok", !.user_id = current_user])
               /\ UNCHANGED <<users, invitations, notifications, nextToken, now>>

\* the response of the finished call reaches its caller
respond ==
    /\ ~Delivered
    /\ res' = NoResult
    /\ UNCHANGED <<store, nextToken, now, pc, loc, accepted, policy, registrations, outbox>>

Tick ==
    /\ Delivered
    /\ now < MaxTime
    /\ now' = now + 1
    /\ res' = NoResult
    /\ UNCHANGED <<store, nextToken, pc, loc, accepted, policy, registrations, outbox>>

Next ==
    \/ \E p \in Procs, e \in RegisterEmails, pw \in RegisterPasswords : register(p, e, pw)
    \/ \E p \in Procs, u \in OrgCreators : create_organization(p, u)
    \/ \E p \in Procs, o \in InviteOrgs, e \in Emails, r \in InviteRoles, u \in UserIds, tp \in TempPasswords, d \in BOOLEAN, f \in BOOLEAN : invite_member(p, o, e, r, u, tp, d, f)
    \/ \E p \in Procs : invite_add(p)
    \/ \E p \in Procs, t \in 1..MaxInvitations, tp \in TempPasswords \cup {WrongPassword}, np \in NewPasswords : accept_invitation(p, t, tp, np)
    \/ \E p \in Procs : accept_user(p)
    \/ \E p \in Procs, f \in BOOLEAN : accept_commit(p, f)
    \/ \E p \in Procs : crash(p)
    \/ respond
    \/ Tick

Spec == Init /\ [][Next]_vars

\* ------------------------------------------------- acceptance on its own
\* roles a membership or an invitation of the acceptance runs carries
HeldRoles == {"member", "admin"}

\* bob@acme.com has signed up, was sent invitation 1 to organization 1 with
\* role invited and has or has not been added to it since with role held
AcceptStore(held, invited) ==
    /\ users = {[id |-> 1, email |-> OwnerEmail, password_hash |-> hash_password("OwnerPass1!"), email_verified |-> FALSE],
                [id |-> 2, email |-> "bob@acme.com", password_hash |-> hash_password("RegPass1!"), email_verified |-> FALSE]}
    /\ orgs = {1, 2}
    /\ members = SetToBag({[organization_id |-> 1, user_id |-> 1, role |-> "owner", invited_by |-> 1],
                           [organization_id |-> 2, user_id |-> 2, role |-> "owner", invited_by |-> 2]}
                          \cup (IF held = "none" THEN {} ELSE {[organization_id |-> 1, user_id |-> 2, role |-> held, invited_by |-> 1]}))
    /\ invitations = {[NoInvitation EXCEPT !.token = 1, !.email = "bob@acme.com", !.organization_id = 1, !.invited_role = invited, !.temporary_password = hash_password("tmpA"), !.invited_by = 1, !.expires_at = INVITATION_TTL]}
    /\ notifications = EmptyBag
    /\ nextToken = 2

AcceptInit ==
    /\ \E held \in HeldRoles \cup {"none"}, invited \in HeldRoles : AcceptStore(held, invited)
    /\ now = 0
    /\ pc = [p \in Procs |-> "idle"]
    /\ loc = [p \in Procs |-> IdleLoc]
    /\ res = NoResult
    /\ accepted = EmptyBag
    /\ settings = OrganizationSettingsRows
    /\ orgdomains = [o \in OrgIds |-> NoDomains]
    /\ smtp = SmtpConfigured
    /\ outbox = {1}
    /\ registrations = {Registered(1, OwnerEmail, 1, 1), Registered(2, "bob@acme.com", 2, 2)}

AcceptNext ==
    \/ \E p \in Procs, tp \in TempPasswords \cup {WrongPassword}, np \in NewPasswords : accept_invitation(p, 1, tp, np)
    \/ \E p \in Procs : accept_user(p)
    \/ \E p \in Procs, f \in BOOLEAN : accept_commit(p, f)
    \/ \E p \in Procs, e \in RegisterEmails, r \in InviteRoles, tp \in TempPasswords, d \in BOOLEAN, f \in BOOLEAN : invite_member(p, 1, e, r, 1, tp, d, f)
    \/ \E p \in Procs : invite_add(p)
    \/ \E p \in Procs : crash(p)
    \/ respond
    \/ Tick

AcceptSpec == AcceptInit /\ [][AcceptNext]_vars

\* ------------------------------------------ the service called on its own
\* addresses handed to the validator and to send_organization_invitation
SendEmails == {"eve@acme.com", "eve@Acme.com", " eve@Acme.com ", "eve@partner.com", "eve.acme.com", "Alice@acme.com", "bob@acme.com"}

\* project_id and message of a call: both left out, or both given
ProjectMessages == {<<0, "">>, <<1, "Welcome">>}

OrgDomainChoices == {"", "Acme.com"}

AllowedDomainsChoices == {{}, {"partner.com"}}

InvitationDomainsChoices == {{}, {"acme.com"}}

\* no settings row for organization 1, or one row
SettingsChoices ==
    {{}} \cup {{[organization_id |-> 1, require_domain_match |-> r, allowed_invitation_domains |-> a]} : r \in BOOLEAN, a \in InvitationDomainsChoices}

\* alice@acme.com owns organization 1; Bob@acme.com signed up with that
\* spelling and was added to organization 1 by invite_member
SendInit ==
    /\ users = {[id |-> 1, email |-> OwnerEmail, password_hash |-> hash_password("OwnerPass1!"), email_verified |-> FALSE],
                [id |-> 2, email |-> "Bob@acme.com", password_hash |-> hash_password("RegPass1!"), email_verified |-> FALSE]}
    /\ orgs = {1, 2}
    /\ members = SetToBag({[organization_id |-> 1, user_id |-> 1, role |-> "owner", invited_by |-> 1],
                           [organization_id |-> 2, user_id |-> 2, role |-> "owner", invited_by |-> 2],
                           [organization_id |-> 1, user_id |-> 2, role |-> "member", invited_by |-> 1]})
    /\ invitations = {}
    /\ notifications = EmptyBag
    /\ nextToken = 1
    /\ now = 0
    /\ pc = [p \in Procs |-> "idle"]
    /\ loc = [p \in Procs |-> IdleLoc]
    /\ res = NoResult
    /\ accepted = EmptyBag
    /\ settings \in SettingsChoices
    /\ \E d \in OrgDomainChoices, a \in AllowedDomainsChoices :
          orgdomains = [o \in OrgIds |-> IF o = 1 THEN [domain |-> d, allowed_domains |-> a] ELSE NoDomains]
    /\ smtp = SmtpConfigured
    /\ outbox = {}
    /\ registrations = {Registered(1, OwnerEmail, 1, 1), Registered(2, "Bob@acme.com", 2, 2)}

\* the validator called on its own
validate_email_domain(p, email, organization_id) ==
    /\ Delivered
    /\ CanStart(p)
    /\ Finish(p, [NoResult EXCEPT !.op = "validate", !.outcome = ValidateEmailDomain(email, organization_id), !.email = email, !.organization_id = organization_id])
    /\ UNCHANGED <<store, nextToken, now>>

\* send_organization_invitation called on its own
send_call(p, email, organization_id, invited_role, inviter_id, project_id, message, temp_password, delivered, notifyFault) ==
    /\ Delivered
    /\ CanStart(p)
    /\ send_organization_invitation(p, email, organization_id, invited_role, inviter_id, project_id, message, temp_password, delivered, notifyFault)
    /\ UNCHANGED now

SendNext ==
    \/ \E p \in Procs, e \in SendEmails, o \in InviteOrgs : validate_email_domain(p, e, o)
    \/ \E p \in Procs, e \in SendEmails, o \in InviteOrgs, r \in InviteRoles, pm \in ProjectMessages, tp \in TempPasswords, d \in BOOLEAN, f \in BOOLEAN :
          send_call(p, e, o, r, 1, pm[1], pm[2], tp, d, f)
    \/ respond
    \/ Tick

SendSpec == SendInit /\ [][SendNext]_vars

\* ------------------------------------------ cancelling and listing
\* select(InvitationToken) by id, invited_by and is_used = False
CancelQuery(invitation_id, user_id) ==
    {i \in invitations : i.id = invitation_id /\ i.invited_by = user_id /\ ~i.is_used}

\* the query of cancel_invitation; no row: the call returns False
cancel_invitation(p, invitation_id, user_id) ==
    /\ Delivered
    /\ CanStart(p)
    /\ IF CancelQuery(invitation_id, user_id) = {}
       THEN Finish(p, [NoResult EXCEPT !.op = "cancel", !.outcome = "False", !.token = invitation_id, !.user_id = user_id, !.alone = OthersIdle(p)])
       ELSE Goto(p, "can_delete", [IdleLoc EXCEPT !.token = invitation_id, !.inv = CHOOSE i \in CancelQuery(invitation_id, user_id) : TRUE, !.user_id = user_id, !.alone = OthersIdle(p), !.via = "cancel"])
    /\ UNCHANGED <<store, nextToken, now>>

\* db.delete(invitation), db.commit(): the row goes by its id, whatever has
\* been committed to it since the query; the call returns True
cancel_delete(p) ==
    /\ Delivered
    /\ pc[p] = "can_delete"
    /\ invitations' = {i \in invitations : i.id # loc[p].inv.id}
    /\ Finish(p, [NoResult EXCEPT !.op = "cancel", !.outcome = "True", !.token = loc[p].token, !.user_id = loc[p].user_id, !.alone = loc[p].alone])
    /\ UNCHANGED <<users, orgs, members, notifications, nextToken, now>>

\* created_at is the time of the insert: the clock period and, within the
\* period, the place of the insert among the inserts; a is later than b
Later(a, b) == a[1] > b[1] \/ (a[1] = b[1] /\ a[2] > b[2])

\* order_by(created_at.desc()): the ids of the rows, the latest insert first
NewestFirst(rows) ==
    {l \in [1..Cardinality(rows) -> {i.id : i \in rows}] :
        \A a, b \in 1..Cardinality(rows) : a < b =>
            \E x, y \in rows : x.id = l[a] /\ y.id = l[b] /\ Later(x.created_at, y.created_at)}

\* the pending query taking expires_at = now for pending
PendingQuery_AtBoundary(organization_id) ==
    {i \in invitations : i.organization_id = organization_id /\ ~i.is_used /\ i.expires_at >= now}

\* the rows get_pending_invitations selects
PendingQuery(organization_id) ==
    {i \in invitations : i.organization_id = organization_id /\ ~i.is_used /\ i.expires_at > now}

get_pending_invitations(p, organization_id) ==
    /\ Delivered
    /\ CanStart(p)
    /\ \E l \in NewestFirst(PendingQuery(organization_id)) :
          Finish(p, [NoResult EXCEPT !.op = "pending", !.outcome = "ok", !.organization_id = organization_id, !.listing = l])
    /\ UNCHANGED <<store, nextToken, now>>

\* an invitation sent at time t and not yet accepted
SentInvitation(id, email, organization_id, inviter_id, t) ==
    [NoInvitation EXCEPT !.id = id, !.token = id, !.email = email, !.organization_id = organization_id, !.invited_role = "member", !.temporary_password = hash_password("tmpA"), !.invited_by = inviter_id, !.expires_at = t + INVITATION_TTL, !.created_at = <<t, id>>]

\* invitations 1 to 3 of the listing runs
ManageTokens == 1..3

\* alice@acme.com and bob@acme.com have signed up and each owns an
\* organization; alice has invited bob to organization 1 twice, bob has
\* invited alice to organization 2 once, each at time 0 or time 1
ManageInit ==
    /\ users = {[id |-> 1, email |-> OwnerEmail, password_hash |-> hash_password("OwnerPass1!"), email_verified |-> FALSE],
                [id |-> 2, email |-> "bob@acme.com", password_hash |-> hash_password("RegPass1!"), email_verified |-> FALSE]}
    /\ orgs = {1, 2}
    /\ members = SetToBag({[organization_id |-> 1, user_id |-> 1, role |-> "owner", invited_by |-> 1],
                           [organization_id |-> 2, user_id |-> 2, role |-> "owner", invited_by |-> 2]})
    /\ \E t1 \in 0..1, t2 \in 0..1, t3 \in 0..1 :
          /\ t1 <= t2 /\ t2 <= t3
          /\ invitations = {SentInvitation(1, "bob@acme.com", 1, 1, t1), SentInvitation(2, "bob@acme.com", 1, 1, t2), SentInvitation(3, "alice@acme.com", 2, 2, t3)}
    /\ notifications = EmptyBag
    /\ nextToken = 4
    /\ now = 1
    /\ pc = [p \in Procs |-> "idle"]
    /\ loc = [p \in Procs |-> IdleLoc]
    /\ res = NoResult
    /\ accepted = EmptyBag
    /\ settings = OrganizationSettingsRows
    /\ orgdomains = [o \in OrgIds |-> NoDomains]
    /\ smtp = SmtpConfigured
    /\ outbox = ManageTokens
    /\ registrations = {Registered(1, OwnerEmail, 1, 1), Registered(2, "bob@acme.com", 2, 2)}

ManageNext ==
    \/ \E p \in Procs, t \in ManageTokens, tp \in TempPasswords, np \in NewPasswords : accept_invitation(p, t, tp, np)
    \/ \E p \in Procs : accept_user(p)
    \/ \E p \in Procs : accept_commit(p, FALSE)
    \/ \E p \in Procs, i \in ManageTokens \cup {4}, u \in {1, 2} : cancel_invitation(p, i, u)
    \/ \E p \in Procs : cancel_delete(p)
    \/ \E p \in Procs, o \in {1, 2} : get_pending_invitations(p, o)
    \/ respond
    \/ Tick

ManageSpec == ManageInit /\ [][ManageNext]_vars

\* ---------------------------------------------- removing, changing roles
Roles == {"owner", "admin", "member"}

\* the query of remove_member and its two refusals
remove_member(p, organization_id, user_id, current_user) ==
    /\ Delivered
    /\ CanStart(p)
    /\ RequireAdmin(current_user, organization_id)
    /\ LET member == GetOrganizationMember(user_id, organization_id)
       IN IF member = {}
          THEN Finish(p, [NoResult EXCEPT !.op = "remove", !.outcome = "ResourceNotFoundError: Member not found", !.organization_id = organization_id, !.user_id = user_id, !.inviter_id = current_user])
          ELSE IF (CHOOSE m \in member : TRUE).role = "owner"
          THEN Finish(p, [NoResult EXCEPT !.op = "remove", !.outcome = "ValidationError: Cannot remove organization owner", !.organization_id = organization_id, !.user_id = user_id, !.inviter_id = current_user])
          ELSE Goto(p, "rm_delete", [IdleLoc EXCEPT !.organization_id = organization_id, !.user_id = user_id, !.inviter_id = current_user, !.read_role = (CHOOSE m \in member : TRUE).role, !.caller_role = RoleOf(current_user, organization_id), !.alone = OthersIdle(p), !.via = "remove"])
    /\ UNCHANGED <<store, nextToken, now>>

\* db.delete(member), db.commit(): the row goes by its key, whatever role has
\* been committed to it since the query; a row already gone is no error
remove_delete(p) ==
    /\ Delivered
    /\ pc[p] = "rm_delete"
    /\ members' = members (-) SetToBag(GetOrganizationMember(loc[p].user_id, loc[p].organization_id))
    /\ Finish(p, [NoResult EXCEPT !.op = "remove", !.outcome = "ok", !.organization_id = loc[p].organization_id, !.user_id = loc[p].user_id, !.inviter_id = loc[p].inviter_id, !.alone = loc[p].alone])
    /\ UNCHANGED <<users, orgs, invitations, notifications, nextToken, now>>

\* the two owner checks of update_member_role
RoleChangeAllowed(member_role, caller_role, role) ==
    /\ ~(member_role = "owner" /\ caller_role # "owner")
    /\ ~(role = "owner" /\ caller_role # "owner")

\* the query of update_member_role and its refusals
update_member_role(p, organization_id, user_id, role, current_user) ==
    /\ Delivered
    /\ CanStart(p)
    /\ RequireAdmin(current_user, organization_id)
    /\ LET member == GetOrganizationMember(user_id, organization_id)
       IN IF member = {}
          THEN Finish(p, [NoResult EXCEPT !.op = "role", !.outcome = "ResourceNotFoundError: Member not found", !.organization_id = organization_id, !.user_id = user_id, !.inviter_id = current_user, !.invited_role = role])
          ELSE IF ~RoleChangeAllowed((CHOOSE m \in member : TRUE).role, RoleOf(current_user, organization_id), role)
          THEN Finish(p, [NoResult EXCEPT !.op = "role", !.outcome = "InsufficientPermissionsError", !.organization_id = organization_id, !.user_id = user_id, !.inviter_id = current_user, !.invited_role = role])
          ELSE Goto(p, "role_commit", [IdleLoc EXCEPT !.organization_id = organization_id, !.user_id = user_id, !.inviter_id = current_user, !.role = role, !.read_role = (CHOOSE m \in member : TRUE).role, !.caller_role = RoleOf(current_user, organization_id), !.alone = OthersIdle(p), !.via = "role"])
    /\ UNCHANGED <<store, nextToken, now>>

\* member.role = role_data.role, db.commit(): no UPDATE when the role read is
\* the role given; otherwise the UPDATE goes by the row's key and fails with
\* StaleDataError when the row has been deleted since the query
role_commit(p) ==
    /\ Delivered
    /\ pc[p] = "role_commit"
    /\ LET member == GetOrganizationMember(loc[p].user_id, loc[p].organization_id)
           done(o) == Finish(p, [NoResult EXCEPT !.op = "role", !.outcome = o, !.organization_id = loc[p].organization_id, !.user_id = loc[p].user_id, !.inviter_id = loc[p].inviter_id, !.invited_role = loc[p].role, !.alone = loc[p].alone])
       IN IF loc[p].read_role = loc[p].role
          THEN members' = members /\ done("ok")
          ELSE IF member = {}
          THEN members' = members /\ done("StaleDataError")
          ELSE /\ members' = (members (-) SetToBag(member)) (+) SetToBag({[m EXCEPT !.role = loc[p].role] : m \in member})
               /\ done("ok")
    /\ UNCHANGED <<users, orgs, invitations, notifications, nextToken, now>>

\* the roles given in the calls that are followed
GivenRoles == {"owner", "member"}

\* who is invited by invite_member: eve has an account, dan has none
MemberInvitees == {"eve@partner.com", "dan@partner.com"}

\* no settings row for organization 1, or one that asks for a domain match
\* with acme.com
MemberSettingsChoices ==
    {{}, {[organization_id |-> 1, require_domain_match |-> TRUE, allowed_invitation_domains |-> {"acme.com"}]}}

\* alice@acme.com owns organization 1, bob@acme.com is its admin and owns
\* organization 3, eve@partner.com owns organization 2
MemberInit ==
    /\ users = {[id |-> 1, email |-> OwnerEmail, password_hash |-> hash_password("OwnerPass1!"), email_verified |-> FALSE],
                [id |-> 2, email |-> "bob@acme.com", password_hash |-> hash_password("RegPass1!"), email_verified |-> FALSE],
                [id |-> 3, email |-> "eve@partner.com", password_hash |-> hash_password("RegPass1!"), email_verified |-> FALSE]}
    /\ orgs = {1, 2, 3}
    /\ members = SetToBag({[organization_id |-> 1, user_id |-> 1, role |-> "owner", invited_by |-> 1],
                           [organization_id |-> 1, user_id |-> 2, role |-> "admin", invited_by |-> 1],
                           [organization_id |-> 2, user_id |-> 3, role |-> "owner", invited_by |-> 3],
                           [organization_id |-> 3, user_id |-> 2, role |-> "owner", invited_by |-> 2]})
    /\ invitations = {}
    /\ notifications = EmptyBag
    /\ nextToken = 1
    /\ now = 0
    /\ pc = [p \in Procs |-> "idle"]
    /\ loc = [p \in Procs |-> IdleLoc]
    /\ res = NoResult
    /\ accepted = EmptyBag
    /\ settings \in MemberSettingsChoices
    /\ orgdomains = [o \in OrgIds |-> NoDomains]
    /\ smtp = SmtpConfigured
    /\ outbox = {}
    /\ registrations = {Registered(1, OwnerEmail, 1, 1), Registered(2, "eve@partner.com", 3, 2), Registered(3, "bob@acme.com", 2, 3)}

\* callers are alice and bob; eve and dan are invited and eve, once added,
\* stays; alice and bob can be removed, and user 4, who does not exist
MemberNext ==
    \/ \E p \in Procs, e \in MemberInvitees, r \in GivenRoles, c \in {1, 2}, tp \in TempPasswords :
          invite_member(p, 1, e, r, c, tp, TRUE, FALSE)
    \/ \E p \in Procs : invite_add(p)
    \/ \E p \in Procs, u \in {1, 2, 4}, c \in {1, 2} : remove_member(p, 1, u, c)
    \/ \E p \in Procs : remove_delete(p)
    \/ \E p \in Procs, u \in {1, 2}, r \in GivenRoles, c \in {1, 2} : update_member_role(p, 1, u, r, c)
    \/ \E p \in Procs : role_commit(p)
    \/ respond

MemberSpec == MemberInit /\ [][MemberNext]_vars

\* ------------------------------------------------- register, step by step
\* the user lookup, then the Registration row and its commit; a user found
\* raises DuplicateResourceError, which the handler turns into a rollback and
\* an HTTPException
register_begin(p, email, password) ==
    /\ Delivered
    /\ CanStart(p)
    /\ IF GetUserByExactEmail(email) # {}
       THEN /\ Finish(p, [NoResult EXCEPT !.op = "register", !.outcome = "HTTPException 500", !.pre = "DuplicateResourceError", !.email = email])
       ELSE /\ registrations' = registrations \cup {Registered(Cardinality(registrations) + 1, email, 0, 0)}
            /\ GotoStep(p, "reg_user", [IdleLoc EXCEPT !.email = email, !.new_password = password, !.token = Cardinality(registrations) + 1, !.alone = OthersIdle(p), !.via = "register"])
            /\ UNCHANGED outbox
    /\ UNCHANGED <<store, nextToken, now>>

\* the User row and its commit; the unique constraint fails the commit
register_user(p) ==
    /\ Delivered
    /\ pc[p] = "reg_user"
    /\ IF UniqueEmailOK(users, loc[p].email)
       THEN /\ Cardinality(users) < MaxUsers
            /\ users' = users \cup {[id |-> Cardinality(users) + 1, email |-> loc[p].email, password_hash |-> hash_password(loc[p].new_password), email_verified |-> FALSE]}
            /\ Goto(p, "reg_org", [loc[p] EXCEPT !.user_id = Cardinality(users) + 1])
       ELSE /\ UNCHANGED users
            /\ Finish(p, [NoResult EXCEPT !.op = "register", !.outcome = "HTTPException 500", !.pre = "IntegrityError", !.email = loc[p].email, !.token = loc[p].token, !.alone = loc[p].alone])
    /\ UNCHANGED <<orgs, members, invitations, notifications, nextToken, now>>

\* the Organization row and its commit
register_organization(p) ==
    /\ Delivered
    /\ pc[p] = "reg_org"
    /\ Cardinality(orgs) < MaxOrgs
    /\ orgs' = orgs \cup {Cardinality(orgs) + 1}
    /\ Goto(p, "reg_member", [loc[p] EXCEPT !.organization_id = Cardinality(orgs) + 1])
    /\ UNCHANGED <<users, members, invitations, notifications, nextToken, now>>

\* the OrganizationMember row with the role owner and its commit
register_member(p) ==
    /\ Delivered
    /\ pc[p] = "reg_member"
    /\ members' = members (+) SetToBag({[organization_id |-> loc[p].organization_id, user_id |-> loc[p].user_id, role |-> "owner", invited_by |-> loc[p].user_id]})
    /\ Goto(p, "reg_finish", loc[p])
    /\ UNCHANGED <<users, orgs, invitations, notifications, nextToken, now>>

\* the Registration row is completed and committed, then the session is
\* created; when that raises the handler rolls back, with nothing left
\* uncommitted, and answers with an HTTPException
register_finish(p, sessionFault) ==
    /\ Delivered
    /\ pc[p] = "reg_finish"
    /\ registrations' = {IF r.id = loc[p].token THEN Registered(r.id, r.email, loc[p].user_id, loc[p].organization_id) ELSE r : r \in registrations}
    /\ FinishCall(p, [NoResult EXCEPT !.op = "register", !.outcome = IF sessionFault THEN "HTTPException 500" ELSE "ok", !.pre = IF sessionFault THEN "session" ELSE "none", !.email = loc[p].email, !.token = loc[p].token, !.user_id = loc[p].user_id, !.organization_id = loc[p].organization_id, !.alone = loc[p].alone, !.fault = sessionFault])
    /\ UNCHANGED <<store, nextToken, now, outbox>>

\* one address in two spellings
RegEmails == {"Bob@acme.com", "bob@acme.com"}

\* nobody has signed up yet
RegInit ==
    /\ users = {}
    /\ orgs = {}
    /\ members = EmptyBag
    /\ invitations = {}
    /\ notifications = EmptyBag
    /\ nextToken = 1
    /\ now = 0
    /\ pc = [p \in Procs |-> "idle"]
    /\ loc = [p \in Procs |-> IdleLoc]
    /\ res = NoResult
    /\ accepted = EmptyBag
    /\ settings = OrganizationSettingsRows
    /\ orgdomains = [o \in OrgIds |-> NoDomains]
    /\ smtp = SmtpConfigured
    /\ outbox = {}
    /\ registrations = {}

RegNext ==
    \/ \E p \in Procs, e \in RegEmails, pw \in RegisterPasswords : register_begin(p, e, pw)
    \/ \E p \in Procs : register_user(p)
    \/ \E p \in Procs : register_organization(p)
    \/ \E p \in Procs : register_member(p)
    \/ \E p \in Procs, f \in BOOLEAN : register_finish(p, f)
    \/ respond

RegSpec == RegInit /\ [][RegNext]_vars

\* ------------------------------------------- sending mail, step by step
\* how the build of the message and the SMTP exchange of one call go
Transports == {"ok", "build_error", "smtp_error"}

\* send_email that takes a missing credential for no obstacle
SendEmail_Unconfigured(cfg, transport) ==
    IF transport = "build_error" THEN [returns |-> "False", progress |-> "none"]
    ELSE IF transport = "smtp_error" THEN [returns |-> "False", progress |-> "attempted"]
    ELSE [returns |-> "True", progress |-> "delivered"]

\* EmailService.send_email: what it returns and how far the delivery got;
\* every exception ends in the except block as False
SendEmail(cfg, transport) ==
    IF cfg.smtp_user = "" \/ cfg.smtp_pass = "" THEN [returns |-> "False", progress |-> "none"]
    ELSE IF transport = "build_error" THEN [returns |-> "False", progress |-> "none"]
    ELSE IF transport = "smtp_error" THEN [returns |-> "False", progress |-> "attempted"]
    ELSE [returns |-> "True", progress |-> "delivered"]

\* send_email called on its own
send_email(p, transport) ==
    /\ Delivered
    /\ CanStart(p)
    /\ Finish(p, [NoResult EXCEPT !.op = "email", !.outcome = SendEmail(smtp, transport).returns, !.pre = SendEmail(smtp, transport).progress, !.message = transport])
    /\ UNCHANGED <<store, nextToken, now>>

\* the commit of the InvitationToken row left for later
InvitationCommit_Deferred(row) == invitations

\* db.add(invitation), db.commit()
InvitationCommit(row) == invitations \cup {row}

\* the two checks, the token and the temporary password, the InvitationToken
\* row and its commit
send_begin(p, email, organization_id, invited_role, inviter_id, temp_password) ==
    /\ Delivered
    /\ CanStart(p)
    /\ IF SendCheck(email, organization_id) # "ok"
       THEN /\ Finish(p, [NoResult EXCEPT !.op = "invite", !.outcome = SendCheck(email, organization_id), !.email = email, !.organization_id = organization_id])
            /\ UNCHANGED <<invitations, nextToken>>
       ELSE /\ nextToken <= MaxInvitations
            /\ invitations' = InvitationCommit(NewInvitation(email, organization_id, invited_role, inviter_id, 0, "", nextToken, temp_password))
            /\ nextToken' = nextToken + 1
            /\ Goto(p, "snd_email", [IdleLoc EXCEPT !.email = email, !.organization_id = organization_id, !.role = invited_role, !.inviter_id = inviter_id, !.token = nextToken, !.temp_password = temp_password, !.alone = OthersIdle(p), !.via = "send"])
    /\ UNCHANGED <<users, orgs, members, notifications, now>>

\* the details of the organization and the inviter, then the invitation
\* e-mail through EmailService
send_dispatch(p, transport) ==
    /\ Delivered
    /\ pc[p] = "snd_email"
    /\ LET found == GetOrganizationDetails(loc[p].organization_id) /\ GetUserDetails(loc[p].inviter_id)
       IN /\ outbox' = Dispatch(found, loc[p].token)
          /\ GotoStep(p, "snd_notify", [loc[p] EXCEPT !.email_sent = found /\ SendEmail(smtp, transport).returns = "True"])
    /\ UNCHANGED <<store, nextToken, now, registrations>>

\* the companion notification of an invitee who has a User row and its
\* commit; the result
send_notify(p, notifyFault) ==
    /\ Delivered
    /\ pc[p] = "snd_notify"
    /\ LET existing_user == GetUserByEmail(loc[p].email)
           uid == IF existing_user = {} THEN 0 ELSE (CHOOSE u \in existing_user : TRUE).id
           outcome == IF existing_user = {} THEN "ok"
                      ELSE SendNotifyOutcome(GetOrganizationDetails(loc[p].organization_id), GetUserDetails(loc[p].inviter_id), notifyFault)
       IN /\ notifications' = IF existing_user # {} /\ outcome = "ok"
                              THEN notifications (+) SetToBag({[user_id |-> uid, organization_id |-> loc[p].organization_id, type |-> "team_invite", title |-> "Project Invitation"]})
                              ELSE notifications
          /\ Finish(p, [NoResult EXCEPT !.op = "invite", !.outcome = outcome, !.email = loc[p].email, !.organization_id = loc[p].organization_id, !.invited_role = loc[p].role, !.inviter_id = loc[p].inviter_id, !.token = loc[p].token, !.temporary_password = loc[p].temp_password, !.email_sent = loc[p].email_sent, !.email_failed = ~loc[p].email_sent, !.alone = loc[p].alone, !.nouser = (existing_user = {}), !.user_id = uid, !.fault = (existing_user # {} /\ notifyFault)])
    /\ UNCHANGED <<users, orgs, members, invitations, nextToken, now>>

\* the credentials the EmailService may have been built with
SmtpChoices == {[smtp_user |-> u, smtp_pass |-> w] : u \in {"", "mailer"}, w \in {"", "secret"}}

\* who is invited: bob has an account, eve has none
MailInvitees == {"bob@acme.com", "eve@acme.com"}

\* alice@acme.com owns organization 1, bob@acme.com organization 2
MailInit ==
    /\ users = {[id |-> 1, email |-> OwnerEmail, password_hash |-> hash_password("OwnerPass1!"), email_verified |-> FALSE],
                [id |-> 2, email |-> "bob@acme.com", password_hash |-> hash_password("RegPass1!"), email_verified |-> FALSE]}
    /\ orgs = {1, 2}
    /\ members = SetToBag({[organization_id |-> 1, user_id |-> 1, role |-> "owner", invited_by |-> 1],
                           [organization_id |-> 2, user_id |-> 2, role |-> "owner", invited_by |-> 2]})
    /\ invitations = {}
    /\ notifications = EmptyBag
    /\ nextToken = 1
    /\ now = 0
    /\ pc = [p \in Procs |-> "idle"]
    /\ loc = [p \in Procs |-> IdleLoc]
    /\ res = NoResult
    /\ accepted = EmptyBag
    /\ settings = OrganizationSettingsRows
    /\ orgdomains = [o \in OrgIds |-> NoDomains]
    /\ smtp \in SmtpChoices
    /\ outbox = {}
    /\ registrations = {Registered(1, OwnerEmail, 1, 1), Registered(2, "bob@acme.com", 2, 2)}

MailNext ==
    \/ \E p \in Procs, e \in MailInvitees, r \in InviteRoles, tp \in TempPasswords : send_begin(p, e, 1, r, 1, tp)
    \/ \E p \in Procs, t \in Transports : send_dispatch(p, t)
    \/ \E p \in Procs, f \in BOOLEAN : send_notify(p, f)
    \/ \E p \in Procs, t \in Transports : send_email(p, t)
    \/ respond

MailSpec == MailInit /\ [][MailNext]_vars

\* ------------------------------------------------------------ properties
AcceptCalls == {p \in Procs : pc[p] \in {"acc_user", "acc_commit"}}

HoldsMembership(email, organization_id) ==
    \E u \in users : u.email = email /\ GetOrganizationMember(u.id, organization_id) # {}

ValidationErrors == {PrecheckError(pre) : pre \in {"unknown", "used", "expired", "badpw"}}

\* C1: of the accept_invitation calls made with one token, in any
\* interleaving, at most one returns success.
C1_AtMostOneAcceptSucceeds == \A t \in 1..MaxInvitations : CopiesIn(t, accepted) <= 1

\* C2: there is never more than one OrganizationMember row for the same
\* (organization, user) pair.
C2_AtMostOneMembership ==
    \A m \in BagToSet(members) :
        /\ CopiesIn(m, members) = 1
        /\ \A n \in BagToSet(members) : (n.organization_id = m.organization_id /\ n.user_id = m.user_id) => n = m

\* a second insert for an existing (organization, user) pair was attempted
C2_Witness ==
    /\ res.outcome = "IntegrityError"
    /\ \E m \in BagToSet(members) : m.user_id = res.user_id /\ m.role = "member"

\* C3: acceptance is atomic.  A step that turns is_used to true makes the
\* user, the membership and used_at visible with it; an accept_invitation
\* that fails or crashes leaves every stored row as it was.
C3_AcceptanceAtomic ==
    [][/\ \A i \in invitations : \A j \in invitations' :
             (j.token = i.token /\ ~i.is_used /\ j.is_used)
                => (HoldsMembership(i.email, i.organization_id))' /\ j.used_at # -1 /\ res'.op = "accept" /\ res'.outcome = "ok"
       /\ (res'.op = "accept" /\ res'.outcome # "ok") => store' = store]_vars

\* an acceptance has committed a membership it created
C3_Witness ==
    /\ res.op = "accept" /\ res.outcome = "ok"
    /\ \E i \in invitations : i.is_used /\ i.token = res.token
         /\ \E m \in BagToSet(members) : m.user_id = res.user_id /\ m.organization_id = i.organization_id /\ m.role = i.invited_role /\ m.invited_by = i.invited_by /\ m.user_id # m.invited_by

\* C4: of two sequential accept_invitation calls with the same token and the
\* correct temporary password, the first succeeds and sets is_used, the
\* second fails with "already been used".
C4_SequentialTwice ==
    (res.op = "accept" /\ res.alone /\ ~res.fault) =>
        /\ res.pre = "valid" => (res.outcome = "ok" /\ \A i \in GetInvitationByToken(res.token) : i.is_used)
        /\ res.pre = "used" => res.outcome = "ValidationError: Invitation has already been used"

\* C5: a failure while creating the notifications of accept_invitation is not
\* propagated: the call returns success and the invitation is committed used.
C5_NotificationFailureNotPropagated ==
    (res.op = "accept" /\ res.fault /\ res.outcome \notin {"IntegrityError", "StaleDataError"}) =>
        (res.outcome = "ok" /\ \A i \in GetInvitationByToken(res.token) : i.is_used)

\* C6: when the e-mail dispatch fails, the invitation row stays committed, the
\* call returns normally and email_sent is false.
C6_EmailFailureNotPropagated ==
    (res.op = "invite" /\ res.email_failed) =>
        /\ GetInvitationByToken(res.token) # {}
        /\ res.outcome = "ok"
        /\ ~res.email_sent

\* C7: for an invitee with a User record, a failure while creating the
\* team_invite notification is non-blocking: the call returns the result.
C7_NotificationNonBlocking ==
    (res.op = "invite" /\ res.token # 0 /\ res.fault) => res.outcome = "ok"

\* C8 as stated: an unused invitation whose expires_at equals the time of the
\* check is rejected, so no call gets past the check with it.
C8_ExpiredAtBoundary ==
    \A p \in AcceptCalls : loc[p].inv.expires_at > loc[p].checked_at

\* C8 amended: the invitation is rejected as expired exactly when expires_at
\* lies before the time of the check; at equality the call goes on.
C8_ExpiredOnlyBeforeNow ==
    /\ \A p \in AcceptCalls : loc[p].inv.expires_at >= loc[p].checked_at
    /\ (res.op = "accept" /\ res.pre = "expired") => \A i \in GetInvitationByToken(res.token) : i.expires_at < now
    /\ (res.op = "accept" /\ res.pre = "badpw") => \A i \in GetInvitationByToken(res.token) : i.expires_at >= now

\* a call passed the expiry check at the very instant of expires_at
C8_Witness ==
    \E p \in AcceptCalls : loc[p].inv.expires_at = loc[p].checked_at

\* C9: an unknown, used or expired token or a wrong temporary password ends
\* the call with ValidationError and no stored row is created or modified;
\* a call that goes on has passed all four checks.
C9_RejectedWithoutEffect ==
    [][/\ (res'.op = "accept" /\ res'.pre \in {"unknown", "used", "expired", "badpw"}) =>
             /\ store' = store
             /\ res'.outcome \in ValidationErrors
             /\ \/ GetInvitationByToken(res'.token) = {}
                \/ \E i \in GetInvitationByToken(res'.token) :
                     i.is_used \/ i.expires_at < now \/ ~verify_password(res'.temporary_password, i.temporary_password)
       /\ \A p \in Procs : (pc[p] = "idle" /\ pc'[p] = "acc_user") =>
             /\ store' = store
             /\ loc'[p].inv \in invitations
             /\ ~loc'[p].inv.is_used
             /\ loc'[p].inv.expires_at >= now
             /\ verify_password(loc'[p].temp_password, loc'[p].inv.temporary_password)]_vars

\* a pending, unexpired invitation was refused for a wrong temporary password
C9_Witness ==
    /\ res.op = "accept" /\ res.pre = "badpw"
    /\ \E i \in GetInvitationByToken(res.token) : ~i.is_used /\ i.expires_at >= now

\* C10: for an address with no User, the invitation followed by its acceptance
\* succeeds and leaves a User with the lower-cased address and exactly one
\* membership with the invited role and inviter.
C10_RoundTrip ==
    (res.op = "accept" /\ res.pre = "valid" /\ res.nouser) =>
        /\ res.outcome = "ok"
        /\ \A i \in GetInvitationByToken(res.token) :
             \E u \in users :
                /\ u.email = i.email
                /\ \E m \in GetOrganizationMember(u.id, i.organization_id) :
                     m.role = i.invited_role /\ m.invited_by = i.invited_by /\ CopiesIn(m, members) = 1

\* C11: after accept_invitation succeeds, the invitee's User row holds the
\* hash of new_password in password_hash, so a login with the invitation
\* email and new_password succeeds.
C11_NewPasswordLogsIn ==
    (res.op = "accept" /\ res.outcome = "ok") =>
        \A i \in GetInvitationByToken(res.token) : \A np \in NewPasswords : LoginOK(i.email, np)

\* C12: an acceptance that succeeds for a user who holds a membership in the
\* organization leaves the membership rows as they are, whatever the invited
\* role; for a user without one it adds exactly one row with the invitation's
\* invited_role and invited_by.
C12_MembershipFrame ==
    [][(res'.op = "accept" /\ res'.outcome = "ok") =>
          \A i \in GetInvitationByToken(res'.token) :
              IF GetOrganizationMember(res'.user_id, i.organization_id) # {}
              THEN members' = members
              ELSE members' = members (+) SetToBag({[organization_id |-> i.organization_id, user_id |-> res'.user_id, role |-> i.invited_role, invited_by |-> i.invited_by]})]_vars

\* an acceptance has succeeded for a member whose role is not the invited one
C12_Witness ==
    /\ res.op = "accept" /\ res.outcome = "ok"
    /\ \E i \in GetInvitationByToken(res.token) :
         /\ i.is_used
         /\ \E m \in GetOrganizationMember(res.user_id, i.organization_id) :
              m.role # i.invited_role /\ CopiesIn(m, members) = 1
         /\ Cardinality(GetOrganizationMember(res.user_id, i.organization_id)) = 1

\* the settings rows of an organization
SettingsOf(organization_id) == {x \in settings : x.organization_id = organization_id}

\* the address has a part after an '@'
HasAt(email) == Len(SplitAt(email)) >= 2

\* the allowed set of an organization as the policy states it
PolicyDomains(organization_id) ==
    {Lower(d) : d \in ({orgdomains[organization_id].domain} \ {""})
                        \cup orgdomains[organization_id].allowed_domains
                        \cup UNION {x.allowed_invitation_domains : x \in SettingsOf(organization_id)}}

RequiresMatch(organization_id) ==
    \E x \in SettingsOf(organization_id) : x.require_domain_match

\* C14: with require_domain_match true and a non-empty allowed set, the
\* validator accepts an address exactly when the lower-cased part after '@'
\* is in the set, and otherwise fails with ValidationError.
C14_AllowedSetDecides ==
    (res.op = "validate" /\ HasAt(res.email) /\ RequiresMatch(res.organization_id) /\ PolicyDomains(res.organization_id) # {})
        => /\ res.outcome = "ok" <=> Lower(SplitAt(res.email)[2]) \in PolicyDomains(res.organization_id)
           /\ res.outcome # "ok" => res.outcome = "ValidationError: Email domain is not allowed"

\* domain acme.com alone is allowed: eve@partner.com is refused
C14_Witness ==
    /\ res.op = "validate" /\ res.email = "eve@partner.com"
    /\ RequiresMatch(res.organization_id) /\ PolicyDomains(res.organization_id) = {"acme.com"}
    /\ orgdomains[res.organization_id].domain # ""
    /\ res.outcome = "ValidationError: Email domain is not allowed"

\* C15: with require_domain_match true and an empty allowed set, the
\* validator passes every address that contains an '@'.
C15_EmptySetPasses ==
    (res.op = "validate" /\ HasAt(res.email) /\ RequiresMatch(res.organization_id) /\ PolicyDomains(res.organization_id) = {})
        => res.outcome = "ok"

\* an address passed under a demanded match with nothing to match against
C15_Witness ==
    /\ res.op = "validate" /\ res.outcome = "ok" /\ HasAt(res.email)
    /\ RequiresMatch(res.organization_id)
    /\ orgdomains[res.organization_id] = NoDomains
    /\ \A x \in SettingsOf(res.organization_id) : x.allowed_invitation_domains = {}

\* the validation failures of send_organization_invitation
SendValidationErrors ==
    {"ValidationError: Email domain is not allowed", "ValidationError: Organization not found", "ValidationError: User is already a member of this organization"}

\* C16: for an address without '@' the validator, and with it
\* send_organization_invitation, fails with ValidationError and with no other
\* error, and no invitation row is persisted.
C16_NoAtIsValidationError ==
    (res.op \in {"validate", "invite"} /\ res.email # "" /\ ~HasAt(res.email)) =>
        /\ res.outcome \in SendValidationErrors
        /\ res.token = 0

\* a User whose address equals email up to letter case is a member
MemberIgnoringCase(email, organization_id) ==
    \E u \in users : Lower(u.email) = Lower(email) /\ GetOrganizationMember(u.id, organization_id) # {}

\* C17: when domain validation fails, or a User with the invited address
\* compared case-insensitively is a member of the organization already,
\* send_organization_invitation fails with ValidationError, persists no
\* InvitationToken row, sends no e-mail and creates no notification.
C17_RejectedSendHasNoEffect ==
    [][(/\ res'.op = "invite" /\ res'.email # ""
        /\ \/ ValidateEmailDomain(res'.email, res'.organization_id) # "ok"
           \/ MemberIgnoringCase(res'.email, res'.organization_id))
          => /\ res'.outcome \in SendValidationErrors
             /\ store' = store
             /\ res'.token = 0
             /\ ~res'.email_sent /\ ~res'.email_failed]_vars

\* C18: a successful send_organization_invitation adds exactly one
\* InvitationToken row: unused, expiring seven days after the call, with the
\* lower-cased and trimmed address and the given organization, role, inviter,
\* project and message; the row holds the hash of the temporary password and
\* the result the clear text that verifies against it.
C18_SendPersistsOneRow ==
    [][(res'.op = "invite" /\ res'.outcome = "ok" /\ res'.token # 0) =>
          \E row \in invitations' \ invitations :
              /\ invitations' = invitations \cup {row}
              /\ row.token = res'.token
              /\ ~row.is_used
              /\ row.expires_at = now + INVITATION_TTL
              /\ row.email = Strip(Lower(res'.email))
              /\ row.organization_id = res'.organization_id
              /\ row.invited_role = res'.invited_role
              /\ row.invited_by = res'.inviter_id
              /\ row.project_id = res'.project_id
              /\ row.invitation_message = res'.message
              /\ row.temporary_password # res'.temporary_password
              /\ verify_password(res'.temporary_password, row.temporary_password)]_vars

\* an address given in mixed case between blanks, with project and message,
\* was invited
C18_Witness ==
    /\ res.op = "invite" /\ res.outcome = "ok" /\ res.email = " eve@Acme.com " /\ res.message = "Welcome"
    /\ \E row \in GetInvitationByToken(res.token) :
         row.email = "eve@acme.com" /\ row.project_id = 1 /\ row.invitation_message = "Welcome" /\ row.expires_at = now + INVITATION_TTL

\* the pending invitations with the given id that the given user has sent
CancellableBy(invitation_id, user_id) ==
    {i \in invitations : i.id = invitation_id /\ ~i.is_used /\ i.invited_by = user_id}

\* C19: cancel_invitation(invitation_id, user_id) deletes the invitation and
\* returns true only when a row with that id is stored, unused and sent by
\* user_id; the delete removes that invitation and nothing else; in every
\* other case (another caller, a used invitation, an unknown id) the call
\* returns false, raises nothing and leaves every stored row as it was.
C19_CancelOnlyByInviter ==
    [][/\ (res'.op = "cancel" /\ res'.outcome = "True") =>
             /\ CancellableBy(res'.token, res'.user_id) # {}
             /\ invitations' = {i \in invitations : i.id # res'.token}
             /\ <<users, orgs, members, notifications>>' = <<users, orgs, members, notifications>>
       /\ (res'.op = "cancel" /\ res'.outcome # "True") =>
             /\ res'.outcome = "False"
             /\ CancellableBy(res'.token, res'.user_id) = {}
             /\ store' = store]_vars

\* C20: get_pending_invitations(organization_id) returns exactly the
\* invitations of that organization that are unused and whose expires_at is
\* strictly greater than the current time, each once, none of another
\* organization, none used, none expired, the newest first by creation time;
\* the call changes no stored row.
C20_PendingListing ==
    [][res'.op = "pending" =>
          LET l == res'.listing
              Pending == {i \in invitations : i.organization_id = res'.organization_id /\ ~i.is_used /\ i.expires_at > now}
          IN  /\ {l[k] : k \in 1..Len(l)} = {i.id : i \in Pending}
              /\ Len(l) = Cardinality(Pending)
              /\ \A a, b \in 1..Len(l) : a < b =>
                    \A x, y \in Pending : (x.id = l[a] /\ y.id = l[b]) => Later(x.created_at, y.created_at)
              /\ store' = store
              /\ now' = now]_vars

\* two invitations of organization 1 were listed, the later one first, while
\* an unused invitation of organization 2 was stored and left out
C20_Witness ==
    /\ res.op = "pending" /\ res.organization_id = 1 /\ Len(res.listing) = 2
    /\ \E x, y \in invitations : x.id = res.listing[1] /\ y.id = res.listing[2] /\ Later(x.created_at, y.created_at)
    /\ \E z \in invitations : z.organization_id = 2 /\ ~z.is_used

\* the memberships of an organization that hold the role owner
Owners(ms, organization_id) ==
    {m \in BagToSet(ms) : m.organization_id = organization_id /\ m.role = "owner"}

\* C21: after any sequence of the operations every organization has at least
\* one OrganizationMember row with the role owner.
C21_EveryOrganizationHasOwner ==
    \A o \in orgs : Owners(members, o) # {}

\* C22: remove_member never deletes a membership whose role is owner: a call
\* that finds the target an owner fails with ValidationError and goes no
\* further, a call that finds no membership fails with ResourceNotFoundError,
\* both leave the store as it was, and the delete of a call that went on
\* takes no row away that holds the role owner.
C22_OwnerNeverRemoved ==
    [][/\ \A p \in Procs : (pc[p] = "idle" /\ pc'[p] = "rm_delete") =>
             \E m \in GetOrganizationMember(loc'[p].user_id, loc'[p].organization_id) : m.role # "owner"
       /\ (res'.op = "remove" /\ res'.outcome = "ValidationError: Cannot remove organization owner") =>
             /\ \E m \in GetOrganizationMember(res'.user_id, res'.organization_id) : m.role = "owner"
             /\ store' = store
       /\ (res'.op = "remove" /\ res'.outcome = "ResourceNotFoundError: Member not found") =>
             /\ GetOrganizationMember(res'.user_id, res'.organization_id) = {}
             /\ store' = store
       /\ (res'.op = "remove" /\ res'.outcome = "ok") =>
             \A o \in orgs : Owners(members, o) \subseteq Owners(members', o)]_vars

\* C23: no two User rows have addresses that are equal when letter case is
\* ignored.
C23_EmailsUniqueIgnoringCase ==
    \A u, v \in users : Lower(u.email) = Lower(v.email) => u = v

\* the rows a register call has created: its Registration row, and the User,
\* Organization and OrganizationMember rows that carry its ids
RowsOfCall(r) ==
    [registration |-> {x \in registrations : x.id = r.token},
     user |-> {u \in users : u.id = r.user_id},
     organization |-> {o \in orgs : o = r.organization_id},
     member |-> {m \in BagToSet(members) : m.user_id = r.user_id}]

\* C28: when register fails, no Registration, User, Organization or
\* OrganizationMember row created by the call remains; when it succeeds the
\* new user holds exactly one membership, with the role owner, in one newly
\* created organization.
C28_RegisterAllOrNothing ==
    /\ (res.op = "register" /\ res.outcome # "ok") =>
          /\ res.token # 0 => RowsOfCall(res).registration = {}
          /\ res.user_id # 0 => (RowsOfCall(res).user = {} /\ RowsOfCall(res).member = {})
          /\ res.organization_id # 0 => RowsOfCall(res).organization = {}
    /\ (res.op = "register" /\ res.outcome = "ok") =>
          /\ RowsOfCall(res).member = {[organization_id |-> res.organization_id, user_id |-> res.user_id, role |-> "owner", invited_by |-> res.user_id]}
          /\ res.organization_id \in orgs

\* C24: in send_organization_invitation the invitation e-mail goes to the
\* EmailService, and the companion notification is created, only after the
\* InvitationToken row has been committed: no e-mail carries a token whose
\* invitation is not in the store when the e-mail is handed over.
C24_MailAfterCommit ==
    [][/\ \A t \in outbox' \ outbox : GetInvitationByToken(t) # {}
       /\ notifications' # notifications =>
             \E p \in Procs : pc[p] = "snd_notify" /\ GetInvitationByToken(loc[p].token) # {}]_vars

\* an invitation was committed, mailed and announced to an invitee who has
\* an account
C24_Witness ==
    /\ res.op = "invite" /\ res.outcome = "ok" /\ res.email_sent
    /\ res.token \in outbox
    /\ GetInvitationByToken(res.token) # {}
    /\ \E n \in BagToSet(notifications) : n.user_id = res.user_id /\ n.type = "team_invite"

\* C25: send_email never raises; it returns false without a delivery attempt
\* when the SMTP user or password is not set, false when the delivery attempt
\* throws, and true only when an SMTP delivery was performed without error.
C25_SendEmailNeverRaises ==
    res.op = "email" =>
       /\ res.outcome \in {"True", "False"}
       /\ (smtp.smtp_user = "" \/ smtp.smtp_pass = "") => (res.outcome = "False" /\ res.pre = "none")
       /\ res.message # "ok" => res.outcome = "False"
       /\ res.outcome = "True" => (res.pre = "delivered" /\ res.message = "ok" /\ smtp.smtp_user # "" /\ smtp.smtp_pass # "")

\* with only the password missing nothing was attempted and false came back
C25_Witness ==
    /\ res.op = "email" /\ res.outcome = "False" /\ res.pre = "none" /\ res.message = "ok"
    /\ smtp.smtp_user # "" /\ smtp.smtp_pass = ""

\* the users who hold the role owner in an organization
OwnerIds(ms, organization_id) == {m.user_id : m \in Owners(ms, organization_id)}

\* the users who hold any membership in an organization
MemberIds(ms, organization_id) == {m.user_id : m \in {x \in BagToSet(ms) : x.organization_id = organization_id}}

\* C26: the role owner is granted and taken only by an owner: whenever a
\* membership newly holds the role owner, or a member who was an owner holds
\* another role, the call that wrote it was made by a caller whose own role
\* in the organization was owner.
C26_OwnerGrantedOnlyByOwner ==
    [][\A o \in orgs :
          \A u \in (OwnerIds(members', o) \ OwnerIds(members, o)) \cup ((OwnerIds(members, o) \ OwnerIds(members', o)) \cap MemberIds(members', o)) :
              \E p \in Procs : /\ pc[p] \in {"inv_add", "role_commit"}
                               /\ loc[p].user_id = u /\ loc[p].organization_id = o
                               /\ loc[p].caller_role = "owner"]_vars

\* the part of an address after its '@' is in the allowed set of the
\* organization
DomainAllowed(email, organization_id) ==
    HasAt(email) /\ Lower(SplitAt(email)[2]) \in PolicyDomains(organization_id)

\* C27: for an organization with require_domain_match true and a non-empty
\* allowed set, no call of invite_member leaves a membership or a pending
\* invitation for an address whose domain is outside the set, whether the
\* address belongs to a User, who is added directly, or not.
C27_PolicyOnEveryPath ==
    [][\A o \in orgs : (RequiresMatch(o) /\ PolicyDomains(o) # {}) =>
          /\ \A i \in invitations' \ invitations : i.organization_id = o => DomainAllowed(i.email, o)
          /\ \A p \in Procs : (pc[p] = "inv_add" /\ loc[p].organization_id = o /\ MemberIds(members', o) # MemberIds(members, o)) =>
                \A u \in users : u.id \in MemberIds(members', o) \ MemberIds(members, o) => DomainAllowed(u.email, o)]_vars

\* C29: once cancel_invitation has returned true for an invitation no
\* accept_invitation with its token succeeds and no listing shows it, and a
\* cancel_invitation and an accept_invitation of one invitation never both
\* return success: a cancellation returns true only for an invitation that
\* nobody has accepted, an acceptance succeeds only for an invitation that is
\* still stored, and a listing shows stored invitations only.
C29_CancelExcludesAccept ==
    [][/\ (res'.op = "cancel" /\ res'.outcome = "True") => ~BagIn(res'.token, accepted)
       /\ (res'.op = "accept" /\ res'.outcome = "ok") => GetInvitationByToken(res'.token) # {}
       /\ res'.op = "pending" => \A k \in 1..Len(res'.listing) : \E i \in invitations : i.id = res'.listing[k]]_vars

\* C30: the pending listing and the expiry check of accept_invitation agree
\* at every instant: an unused invitation passes the check exactly when
\* get_pending_invitations of its organization lists it.
C30_ListingAgreesWithExpiryCheck ==
    \A i \in invitations : ~i.is_used =>
        ((AcceptPrecheck({i}, "tmpA", now) # "expired") <=> (i \in PendingQuery(i.organization_id)))
====
